---- MODULE Spec2Model ----
(***************************************************************************)
(* A model of the notebook "Exploring data using pandas"                   *)
(* (src/markdown_exploring-data-using-pandas.py).                          *)
(*                                                                         *)
(* The notebook is a straight-line script of calls into pandas.  The       *)
(* operators below give each call the behaviour pandas has for it:         *)
(* read_csv (C tokenizer, default arguments apart from sep, skiprows and   *)
(* usecols), DataFrame.head/tail, DataFrame.__getitem__, describe, the     *)
(* Series reductions and the DataFrame/Series constructors.                *)
(*                                                                         *)
(* Text is a sequence of one-character strings, so that parsing a cell is  *)
(* a computation on its characters.  Floating-point values are modelled as *)
(* exact rationals n/d (rounding is not modelled); a standard deviation is *)
(* kept as the variance under a square-root tag.                           *)
(*                                                                         *)
(* Three specifications share the variables:                               *)
(*   Spec          the accessor's operations applied, in any order, to     *)
(*                 inputs drawn from bounded sets;                         *)
(*   ParseSpec     read_csv alone, on every small file and on the weather  *)
(*                 file;                                                   *)
(*   NotebookSpec  the notebook's own statements, in order, on the         *)
(*                 weather file.                                           *)
(***************************************************************************)
EXTENDS Integers, Sequences, FiniteSets

(***************************************************************************)
(* Bounds of the model.                                                    *)
(***************************************************************************)
\* longest small input file, in lines
MaxLines == 3
\* largest n passed to head and tail in Spec
MaxN == 3
\* number of variants of the weather file's values, less one
MaxSeed == 3
\* most columns of a selection in Spec (selecting a repeated name from a
\* table that repeats it multiplies the columns)
MaxCols == 3

(***************************************************************************)
(* Generic helpers on sequences.                                           *)
(***************************************************************************)
Range(s) == {s[i] : i \in DOMAIN s}

Min2(a, b) == IF a <= b THEN a ELSE b

Max2(a, b) == IF a >= b THEN a ELSE b

Abs(a) == IF a < 0 THEN -a ELSE a

RECURSIVE GCD(_, _)
GCD(a, b) == IF b = 0 THEN a ELSE GCD(b, a % b)

RECURSIVE Pow10(_)
Pow10(k) == IF k = 0 THEN 1 ELSE 10 * Pow10(k - 1)

\* s without the elements equal to x
RECURSIVE Without(_, _)
Without(s, x) ==
    IF s = <<>> THEN <<>>
    ELSE (IF Head(s) = x THEN <<>> ELSE <<Head(s)>>) \o Without(Tail(s), x)

RECURSIVE Flatten(_)
Flatten(ss) == IF ss = <<>> THEN <<>> ELSE Head(ss) \o Flatten(Tail(ss))

(***************************************************************************)
(* Values held by a table: int64, float64 (a rational n/d), NaN (the       *)
(* missing-value sentinel), str, bool, and the square root of a rational   *)
(* (a standard deviation).                                                 *)
(***************************************************************************)
IntV(i) == [k |-> "int", n |-> i, d |-> 1, s |-> <<>>]

FloatV(n, d) ==
    LET g == GCD(Abs(n), Abs(d))
        sg == IF d < 0 THEN -1 ELSE 1
    IN [k |-> "float", n |-> (sg * n) \div g, d |-> (sg * d) \div g, s |-> <<>>]

NaN == [k |-> "nan", n |-> 0, d |-> 1, s |-> <<>>]

StrV(c) == [k |-> "str", n |-> 0, d |-> 1, s |-> c]

BoolV(b) == [k |-> "bool", n |-> IF b THEN 1 ELSE 0, d |-> 1, s |-> <<>>]

SqrtV(v) == [k |-> "sqrt", n |-> v.n, d |-> v.d, s |-> <<>>]

IsNum(v) == v.k \in {"int", "float"}

\* int64 -> float64
AsFloat(v) == IF v.k = "int" THEN FloatV(v.n, 1) ELSE v

\* sums and differences are taken over the least common denominator
RAdd(a, b) ==
    LET g == GCD(a.d, b.d)
    IN FloatV(a.n * (b.d \div g) + b.n * (a.d \div g), (a.d \div g) * b.d)

RSub(a, b) ==
    LET g == GCD(a.d, b.d)
    IN FloatV(a.n * (b.d \div g) - b.n * (a.d \div g), (a.d \div g) * b.d)

RMul(a, b) == FloatV(a.n * b.n, a.d * b.d)

\* b is not zero
RDiv(a, b) == FloatV(a.n * b.d, a.d * b.n)

RLess(a, b) == a.n * b.d < b.n * a.d

(***************************************************************************)
(* Cells of a delimited text file and their parsing (pd.read_csv).         *)
(***************************************************************************)
Digits == {"0", "1", "2", "3", "4", "5", "6", "7", "8", "9"}

DigitVal(c) ==
    CASE c = "0" -> 0 [] c = "1" -> 1 [] c = "2" -> 2 [] c = "3" -> 3
      [] c = "4" -> 4 [] c = "5" -> 5 [] c = "6" -> 6 [] c = "7" -> 7
      [] c = "8" -> 8 [] c = "9" -> 9

HasSign(c) == Len(c) > 0 /\ c[1] \in {"-", "+"}

Unsigned(c) == IF HasSign(c) THEN Tail(c) ELSE c

\* the value of a sequence of digits
RECURSIVE DigitsValue(_)
DigitsValue(c) ==
    IF c = <<>> THEN 0
    ELSE 10 * DigitsValue(SubSeq(c, 1, Len(c) - 1)) + DigitVal(c[Len(c)])

\* an optional sign and one or more digits
IsIntLiteral(c) ==
    /\ Unsigned(c) # <<>>
    /\ \A i \in DOMAIN Unsigned(c) : Unsigned(c)[i] \in Digits

IntValue(c) ==
    (IF HasSign(c) /\ c[1] = "-" THEN -1 ELSE 1) * DigitsValue(Unsigned(c))

\* an optional sign, digits with at most one decimal point, at least one digit
IsDecLiteral(c) ==
    LET u == Unsigned(c)
    IN /\ \E i \in DOMAIN u : u[i] \in Digits
       /\ \A i \in DOMAIN u : u[i] \in Digits \cup {"."}
       /\ Cardinality({i \in DOMAIN u : u[i] = "."}) <= 1

DecValue(c) ==
    LET u == Unsigned(c)
        dots == {i \in DOMAIN u : u[i] = "."}
        frac == IF dots = {} THEN 0 ELSE Len(u) - (CHOOSE i \in dots : TRUE)
        ds == Without(u, ".")
        sg == IF HasSign(c) /\ c[1] = "-" THEN -1 ELSE 1
    IN FloatV(sg * DigitsValue(ds), Pow10(frac))

\* the tokens read_csv takes for a missing value (its default na_values)
NaValues ==
    {<<>>,
     <<"#", "N", "/", "A">>,
     <<"#", "N", "/", "A", " ", "N", "/", "A">>,
     <<"#", "N", "A">>,
     <<"-", "1", ".", "#", "I", "N", "D">>,
     <<"-", "1", ".", "#", "Q", "N", "A", "N">>,
     <<"-", "N", "a", "N">>,
     <<"-", "n", "a", "n">>,
     <<"1", ".", "#", "I", "N", "D">>,
     <<"1", ".", "#", "Q", "N", "A", "N">>,
     <<"<", "N", "A", ">">>,
     <<"N", "/", "A">>,
     <<"N", "A">>,
     <<"N", "U", "L", "L">>,
     <<"N", "a", "N">>,
     <<"N", "o", "n", "e">>,
     <<"n", "/", "a">>,
     <<"n", "a", "n">>,
     <<"n", "u", "l", "l">>}

IsNA(c) == c \in NaValues

TrueLiterals == {<<"T", "r", "u", "e">>, <<"T", "R", "U", "E">>, <<"t", "r", "u", "e">>}

FalseLiterals ==
    {<<"F", "a", "l", "s", "e">>, <<"F", "A", "L", "S", "E">>,
     <<"f", "a", "l", "s", "e">>}

\* InferDtype with the missing cells left out of the test for int64
InferDtypeIgnoringNA(cells) ==
    IF \A i \in DOMAIN cells : IsNA(cells[i]) \/ IsIntLiteral(cells[i])
    THEN "int64"
    ELSE IF \A i \in DOMAIN cells : IsNA(cells[i]) \/ IsDecLiteral(cells[i])
    THEN "float64"
    ELSE IF \A i \in DOMAIN cells : cells[i] \in TrueLiterals \cup FalseLiterals
    THEN "bool"
    ELSE "object"

\* the dtype read_csv gives a column of one or more cells: it tries int64,
\* float64 and bool in this order and falls back to object
InferDtype(cells) ==
    IF \A i \in DOMAIN cells : ~IsNA(cells[i]) /\ IsIntLiteral(cells[i])
    THEN "int64"
    ELSE IF \A i \in DOMAIN cells : IsNA(cells[i]) \/ IsDecLiteral(cells[i])
    THEN "float64"
    ELSE IF \A i \in DOMAIN cells : cells[i] \in TrueLiterals \cup FalseLiterals
    THEN "bool"
    ELSE "object"

\* a cell as a value of a column of the given dtype
ConvertCell(c, dtype) ==
    CASE dtype = "int64" -> IntV(IntValue(c))
      [] dtype = "float64" -> IF IsNA(c) THEN NaN ELSE DecValue(c)
      [] dtype = "bool" -> BoolV(c \in TrueLiterals)
      [] OTHER -> IF IsNA(c) THEN NaN ELSE StrV(c)

ConvertColumn(cells) ==
    [i \in DOMAIN cells |-> ConvertCell(cells[i], InferDtype(cells))]

(***************************************************************************)
(* Results of the calls: a DataFrame, a Series, a scalar, or the exception *)
(* raised.                                                                 *)
(***************************************************************************)
Column(name, dtype, values) == [name |-> name, dtype |-> dtype, values |-> values]

Frame(columns, index) == [kind |-> "frame", columns |-> columns, index |-> index]

Series(name, dtype, values, index) ==
    [kind |-> "series", name |-> name, dtype |-> dtype, values |-> values,
     index |-> index]

Scalar(v) == [kind |-> "scalar", value |-> v]

\* line is the line of the input file the error names (0: none)
Error(err, line) == [kind |-> "error", err |-> err, line |-> line]

\* the variable is not bound
Unbound == [kind |-> "unbound"]

\* the default row labels 0 .. n-1; a label is a tuple of values (one value,
\* unless read_csv took several leading fields of each row as the index)
RangeIndex(n) == [i \in 1..n |-> <<IntV(i - 1)>>]

\* pd.DataFrame()
EmptyFrame == Frame(<<>>, <<>>)

(***************************************************************************)
(* pd.read_csv(file, sep, skiprows, usecols)                               *)
(***************************************************************************)
Comma == ","

\* the fields of a line of text
RECURSIVE Split(_, _)
Split(line, sep) ==
    IF \A i \in DOMAIN line : line[i] # sep THEN <<line>>
    ELSE LET p == CHOOSE i \in DOMAIN line :
                      line[i] = sep /\ \A j \in 1..(i - 1) : line[j] # sep
         IN <<SubSeq(line, 1, p - 1)>> \o Split(SubSeq(line, p + 1, Len(line)), sep)

\* KeptLines with skiprows counted in lines that are not blank: a blank line
\* among the leading lines is dropped without being counted
RECURSIVE KeptLinesBlankUncounted(_, _, _)
KeptLinesBlankUncounted(file, skiprows, i) ==
    IF i > Len(file) THEN <<>>
    ELSE (IF /\ file[i] # <<>>
             /\ Cardinality({j \in 1..(i - 1) : file[j] # <<>>}) >= skiprows
          THEN <<i>> ELSE <<>>)
         \o KeptLinesBlankUncounted(file, skiprows, i + 1)

\* the numbers of the lines the tokenizer keeps: those after the first
\* skiprows lines of the file that are not blank (skip_blank_lines)
RECURSIVE KeptLines(_, _, _)
KeptLines(file, skiprows, i) ==
    IF i > Len(file) THEN <<>>
    ELSE (IF i > skiprows /\ file[i] # <<>> THEN <<i>> ELSE <<>>)
         \o KeptLines(file, skiprows, i + 1)

Pad(fields, n) ==
    fields \o [i \in 1..(n - Len(fields)) |-> <<>>]

\* TokenizeRows with a row's extra fields dropped instead of reported
RECURSIVE TokenizeRowsTruncating(_, _, _, _, _, _)
TokenizeRowsTruncating(file, sep, kept, j, expected, hasUsecols) ==
    IF j > Len(kept) THEN [err |-> FALSE, line |-> 0, rows |-> <<>>]
    ELSE LET fields == Split(file[kept[j]], sep)
             row == IF j > 2 /\ Len(fields) > expected
                    THEN SubSeq(fields, 1, expected)
                    ELSE Pad(fields, expected)
             rest == TokenizeRowsTruncating(file, sep, kept, j + 1,
                                            Len(row), hasUsecols)
         IN [err |-> rest.err, line |-> rest.line, rows |-> <<row>> \o rest.rows]

\* The tokenizer's end_line over the data rows kept[j..]: a row with fewer
\* fields than the line before it is padded with empty fields; a row with
\* more is an error, unless it is the first row after the header or usecols
\* is given.  expected is the field count of the line before.
RECURSIVE TokenizeRows(_, _, _, _, _, _)
TokenizeRows(file, sep, kept, j, expected, hasUsecols) ==
    IF j > Len(kept) THEN [err |-> FALSE, line |-> 0, rows |-> <<>>]
    ELSE LET fields == Split(file[kept[j]], sep)
         IN IF j > 2 /\ Len(fields) > expected /\ ~hasUsecols
            THEN [err |-> TRUE, line |-> kept[j], rows |-> <<>>]
            ELSE LET row == Pad(fields, expected)
                     rest == TokenizeRows(file, sep, kept, j + 1,
                                          Len(row), hasUsecols)
                 IN [err |-> rest.err, line |-> rest.line,
                     rows |-> <<row>> \o rest.rows]

DigitChar(i) ==
    CASE i = 0 -> "0" [] i = 1 -> "1" [] i = 2 -> "2" [] i = 3 -> "3"
      [] i = 4 -> "4" [] i = 5 -> "5" [] i = 6 -> "6" [] i = 7 -> "7"
      [] i = 8 -> "8" [] i = 9 -> "9"

\* the decimal digits of a natural number
RECURSIVE NatText(_)
NatText(i) ==
    IF i < 10 THEN <<DigitChar(i)>> ELSE NatText(i \div 10) \o <<DigitChar(i % 10)>>

UnnamedPrefix == <<"U", "n", "n", "a", "m", "e", "d", ":", " ">>

\* a header field without text is named by its position
HeaderNames(header) ==
    [p \in DOMAIN header |->
        IF header[p] = <<>> THEN UnnamedPrefix \o NatText(p - 1) ELSE header[p]]

\* MangleDupes with a repeated name kept as it is
KeepDupes(names) == names

\* a name that repeats an earlier one gets the count of the earlier ones as a suffix
MangleDupes(names) ==
    [p \in DOMAIN names |->
        LET c == Cardinality({q \in 1..(p - 1) : names[q] = names[p]})
        IN IF c = 0 THEN names[p] ELSE names[p] \o <<".">> \o NatText(c)]

\* the column of the fields at position p of the rows
FieldsAt(rows, p) == [r \in DOMAIN rows |-> rows[r][p]]

ReadColumn(name, rows, p) ==
    IF rows = <<>> THEN Column(name, "object", <<>>)
    ELSE Column(name, InferDtype(FieldsAt(rows, p)), ConvertColumn(FieldsAt(rows, p)))

\* the row labels: the leading fields of each row, when the first row has
\* more fields than the header, and 0 .. n-1 otherwise
ReadIndex(rows, leading) ==
    IF leading = 0 THEN RangeIndex(Len(rows))
    ELSE [r \in DOMAIN rows |->
             [p \in 1..leading |-> ConvertColumn(FieldsAt(rows, p))[r]]]

\* the positions of the columns kept, in the file's order
RECURSIVE UsedColumns(_, _, _)
UsedColumns(names, usecols, p) ==
    IF p > Len(names) THEN <<>>
    ELSE (IF names[p] \in usecols THEN <<p>> ELSE <<>>)
         \o UsedColumns(names, usecols, p + 1)

\* usecols is a set of names, or NoUsecols for all the columns
NoUsecols == {<<>>}

read_csv(file, sep, skiprows, usecols) ==
    LET kept == KeptLines(file, skiprows, 1)
    IN IF kept = <<>> THEN Error("EmptyDataError", 0)
       ELSE
       LET names == MangleDupes(HeaderNames(Split(file[kept[1]], sep)))
           hasUsecols == usecols # NoUsecols
           tok == TokenizeRows(file, sep, kept, 2, Len(names), hasUsecols)
           rows == tok.rows
           leading == IF rows = <<>> \/ hasUsecols THEN 0
                      ELSE Len(rows[1]) - Len(names)
           used == IF hasUsecols THEN UsedColumns(names, usecols, 1)
                   ELSE [p \in DOMAIN names |-> p]
       IN IF tok.err THEN Error("ParserError", tok.line)
          ELSE IF hasUsecols /\ ~(usecols \subseteq Range(names))
          THEN Error("ValueError", 0)
          ELSE Frame([q \in DOMAIN used |->
                         ReadColumn(names[used[q]], rows, leading + used[q])],
                     ReadIndex(rows, leading))

(***************************************************************************)
(* DataFrame.head, DataFrame.tail, DataFrame.__getitem__                   *)
(***************************************************************************)
NRows(t) == Len(t.index)

NCols(t) == Len(t.columns)

ColumnNames(t) == [c \in DOMAIN t.columns |-> t.columns[c].name]

Dtypes(t) == [c \in DOMAIN t.columns |-> t.columns[c].dtype]

\* Python's s[:n]: how many leading elements of a sequence of length len it keeps
SliceTo(len, n) == IF n >= 0 THEN Min2(n, len) ELSE Max2(len + n, 0)

\* Python's s[m:]: how many leading elements of a sequence of length len it drops
SliceFrom(len, m) == IF m >= 0 THEN Min2(m, len) ELSE Max2(len + m, 0)

\* the rows lo .. hi of a frame, with their labels
iloc(t, lo, hi) ==
    Frame([c \in DOMAIN t.columns |->
              Column(t.columns[c].name, t.columns[c].dtype,
                     SubSeq(t.columns[c].values, lo, hi))],
          SubSeq(t.index, lo, hi))

\* self.iloc[:n]
head(t, n) == iloc(t, 1, SliceTo(NRows(t), n))

\* tail as self.iloc[-n:] for every n: -0 is 0, and s[0:] is all of s
tailFromEnd(t, n) == iloc(t, SliceFrom(NRows(t), -n) + 1, NRows(t))

\* self.iloc[0:0] if n == 0, else self.iloc[-n:]
tail(t, n) ==
    IF n = 0 THEN iloc(t, 1, 0)
    ELSE iloc(t, SliceFrom(NRows(t), -n) + 1, NRows(t))

\* the columns of t called name, in t's order
RECURSIVE ColumnsNamed(_, _)
ColumnsNamed(columns, name) ==
    IF columns = <<>> THEN <<>>
    ELSE (IF Head(columns).name = name THEN <<Head(columns)>> ELSE <<>>)
         \o ColumnsNamed(Tail(columns), name)

\* getitem_list with the columns in t's order rather than the order asked for
getitem_listTableOrder(t, names) ==
    IF \E i \in DOMAIN names : names[i] \notin Range(ColumnNames(t))
    THEN [kind |-> "error", err |-> "KeyError", line |-> 0]
    ELSE [kind |-> "frame",
          columns |-> Flatten([c \in DOMAIN t.columns |->
                                  IF t.columns[c].name \in Range(names)
                                  THEN <<t.columns[c]>> ELSE <<>>]),
          index |-> t.index]

\* t[[name, ...]]: the columns in the order asked for, a KeyError for a name
\* that t has no column of
getitem_list(t, names) ==
    IF \E i \in DOMAIN names : names[i] \notin Range(ColumnNames(t))
    THEN Error("KeyError", 0)
    ELSE Frame(Flatten([i \in DOMAIN names |-> ColumnsNamed(t.columns, names[i])]),
               t.index)

\* t[name] and t.name: the column as a Series (a frame, when several
\* columns have the name)
getitem(t, name) ==
    LET found == ColumnsNamed(t.columns, name)
    IN IF found = <<>> THEN Error("KeyError", 0)
       ELSE IF Len(found) = 1
       THEN Series(name, found[1].dtype, found[1].values, t.index)
       ELSE Frame(found, t.index)

(***************************************************************************)
(* Reductions of a numeric Series: mean, min, max, std (skipna=True)       *)
(***************************************************************************)
\* the values that are not missing, as floats
RECURSIVE NonMissing(_)
NonMissing(values) ==
    IF values = <<>> THEN <<>>
    ELSE (IF Head(values).k = "nan" THEN <<>> ELSE <<AsFloat(Head(values))>>)
         \o NonMissing(Tail(values))

RECURSIVE Sum(_)
Sum(xs) ==
    IF xs = <<>> THEN FloatV(0, 1)
    ELSE LET rest == Sum(Tail(xs))
         IN IF rest.n = 0 THEN Head(xs) ELSE RAdd(Head(xs), rest)

RECURSIVE Least(_)
Least(xs) ==
    IF Len(xs) = 1 THEN xs[1]
    ELSE LET r == Least(Tail(xs)) IN IF RLess(r, Head(xs)) THEN r ELSE Head(xs)

RECURSIVE Greatest(_)
Greatest(xs) ==
    IF Len(xs) = 1 THEN xs[1]
    ELSE LET r == Greatest(Tail(xs)) IN IF RLess(Head(xs), r) THEN r ELSE Head(xs)

\* a float result as a value of the series' dtype
OfDtype(v, dtype) == IF dtype = "int64" THEN IntV(v.n) ELSE v

Mean(xs) == RDiv(Sum(xs), FloatV(Len(xs), 1))

\* the sample variance (ddof = 1) of two or more values
Variance(xs) ==
    LET m == Mean(xs)
        sq == [i \in DOMAIN xs |-> RMul(RSub(xs[i], m), RSub(xs[i], m))]
    IN RDiv(Sum(sq), FloatV(Len(xs) - 1, 1))

\* series_mean with the missing values counted in the divisor
series_meanOverAll(values) ==
    LET xs == NonMissing(values)
    IN IF xs = <<>> THEN NaN ELSE RDiv(Sum(xs), FloatV(Len(values), 1))

series_mean(values) ==
    LET xs == NonMissing(values)
    IN IF xs = <<>> THEN NaN ELSE Mean(xs)

series_min(values, dtype) ==
    LET xs == NonMissing(values)
    IN IF xs = <<>> THEN NaN ELSE OfDtype(Least(xs), dtype)

series_max(values, dtype) ==
    LET xs == NonMissing(values)
    IN IF xs = <<>> THEN NaN ELSE OfDtype(Greatest(xs), dtype)

series_std(values) ==
    LET xs == NonMissing(values)
    IN IF Len(xs) < 2 THEN NaN ELSE SqrtV(Variance(xs))

Reductions == {"mean", "min", "max", "std"}

reduce(fn, values, dtype) ==
    CASE fn = "mean" -> series_mean(values)
      [] fn = "min" -> series_min(values, dtype)
      [] fn = "max" -> series_max(values, dtype)
      [] fn = "std" -> series_std(values)

IsNumericDtype(dtype) == dtype \in {"int64", "float64"}

\* DataFrame.mean(): the mean of every column, labelled by the column names
frame_mean(t) ==
    IF \E c \in DOMAIN t.columns : t.columns[c].dtype = "object"
    THEN Error("TypeError", 0)
    ELSE Series(<<>>, "float64",
                [c \in DOMAIN t.columns |-> series_mean(t.columns[c].values)],
                [c \in DOMAIN t.columns |-> <<StrV(t.columns[c].name)>>])

(***************************************************************************)
(* DataFrame.describe(exclude=...)                                         *)
(***************************************************************************)
\* xs in ascending order
RECURSIVE Insert(_, _)
Insert(x, xs) ==
    IF xs = <<>> THEN <<x>>
    ELSE IF RLess(Head(xs), x) THEN <<Head(xs)>> \o Insert(x, Tail(xs))
    ELSE <<x>> \o xs

RECURSIVE Sorted(_)
Sorted(xs) == IF xs = <<>> THEN <<>> ELSE Insert(Head(xs), Sorted(Tail(xs)))

\* the quantile qn/qd of one or more values, interpolating linearly between
\* the two order statistics around position (n - 1) * qn / qd
Quantile(xs, qn, qd) ==
    LET ys == Sorted(xs)
        lo == ((Len(ys) - 1) * qn) \div qd
        frac == FloatV(((Len(ys) - 1) * qn) % qd, qd)
    IN IF frac.n = 0 THEN ys[lo + 1]
       ELSE RAdd(ys[lo + 1], RMul(frac, RSub(ys[lo + 2], ys[lo + 1])))

NumericStats ==
    <<<<"c", "o", "u", "n", "t">>,
      <<"m", "e", "a", "n">>,
      <<"s", "t", "d">>,
      <<"m", "i", "n">>,
      <<"2", "5", "%">>,
      <<"5", "0", "%">>,
      <<"7", "5", "%">>,
      <<"m", "a", "x">>>>

CategoricalStats ==
    <<<<"c", "o", "u", "n", "t">>,
      <<"u", "n", "i", "q", "u", "e">>,
      <<"t", "o", "p">>,
      <<"f", "r", "e", "q">>>>

\* count, mean, std, min, 25%, 50%, 75%, max of a numeric column
describe_numeric_1d(values) ==
    LET xs == NonMissing(values)
    IN IF xs = <<>>
       THEN <<FloatV(0, 1), NaN, NaN, NaN, NaN, NaN, NaN, NaN>>
       ELSE <<FloatV(Len(xs), 1), Mean(xs), series_std(values), Least(xs),
              Quantile(xs, 1, 4), Quantile(xs, 1, 2), Quantile(xs, 3, 4),
              Greatest(xs)>>

RECURSIVE Present(_)
Present(values) ==
    IF values = <<>> THEN <<>>
    ELSE (IF Head(values).k = "nan" THEN <<>> ELSE <<Head(values)>>)
         \o Present(Tail(values))

Occurrences(xs, x) == Cardinality({i \in DOMAIN xs : xs[i] = x})

\* the first of the most frequent values
Top(xs) ==
    xs[CHOOSE i \in DOMAIN xs :
          /\ \A j \in DOMAIN xs : Occurrences(xs, xs[j]) <= Occurrences(xs, xs[i])
          /\ \A j \in 1..(i - 1) : Occurrences(xs, xs[j]) < Occurrences(xs, xs[i])]

\* count, unique, top, freq of a column that is not numeric
describe_categorical_1d(values) ==
    LET xs == Present(values)
    IN IF xs = <<>> THEN <<IntV(0), IntV(0), NaN, NaN>>
       ELSE <<IntV(Len(xs)), IntV(Cardinality(Range(xs))), Top(xs),
              IntV(Occurrences(xs, Top(xs)))>>

\* exclude is a set of dtypes; the empty set stands for the default, None
NoExclude == {}

\* the columns described: without exclude the numeric ones, or all of them
\* when none is numeric; with exclude every column of another dtype
RECURSIVE ColumnsWhere(_, _)
ColumnsWhere(columns, dtypes) ==
    IF columns = <<>> THEN <<>>
    ELSE (IF Head(columns).dtype \in dtypes THEN <<Head(columns)>> ELSE <<>>)
         \o ColumnsWhere(Tail(columns), dtypes)

AllDtypes == {"int64", "float64", "bool", "object"}

select_data(t, exclude) ==
    IF exclude = NoExclude
    THEN IF ColumnsWhere(t.columns, {"int64", "float64"}) = <<>> THEN t.columns
         ELSE ColumnsWhere(t.columns, {"int64", "float64"})
    ELSE ColumnsWhere(t.columns, AllDtypes \ exclude)

\* the statistic called name of a described column, NaN when it has none
StatOf(column, name) ==
    LET names == IF IsNumericDtype(column.dtype) THEN NumericStats
                 ELSE CategoricalStats
        stats == IF IsNumericDtype(column.dtype)
                 THEN describe_numeric_1d(column.values)
                 ELSE describe_categorical_1d(column.values)
    IN IF \E i \in DOMAIN names : names[i] = name
       THEN stats[CHOOSE i \in DOMAIN names : names[i] = name]
       ELSE NaN

\* the row labels of the description: those of the shortest descriptions first
StatNames(columns) ==
    IF \A c \in DOMAIN columns : IsNumericDtype(columns[c].dtype)
    THEN NumericStats
    ELSE IF \A c \in DOMAIN columns : ~IsNumericDtype(columns[c].dtype)
    THEN CategoricalStats
    ELSE CategoricalStats \o Tail(NumericStats)

describe(t, exclude) ==
    LET data == select_data(t, exclude)
        names == StatNames(data)
    IN IF data = <<>> THEN Error("ValueError", 0)
       ELSE Frame([c \in DOMAIN data |->
                      Column(data[c].name,
                             IF IsNumericDtype(data[c].dtype) THEN "float64"
                             ELSE "object",
                             [r \in DOMAIN names |-> StatOf(data[c], names[r])])],
                  [r \in DOMAIN names |-> <<StrV(names[r])>>])

(***************************************************************************)
(* pd.Series(list, index=...) and pd.DataFrame(data={...})                 *)
(***************************************************************************)
\* the dtype of a list of Python values
ListDtype(values) ==
    IF values = <<>> THEN "object"
    ELSE IF \A i \in DOMAIN values : values[i].k = "int" THEN "int64"
    ELSE IF \A i \in DOMAIN values : values[i].k \in {"int", "float"} THEN "float64"
    ELSE "object"

ListValues(values) ==
    IF ListDtype(values) = "float64"
    THEN [i \in DOMAIN values |-> AsFloat(values[i])]
    ELSE values

\* index is a sequence of labels, or NoIndex for the default 0 .. n-1
NoIndex == <<<<>>>>

new_series(values, index) ==
    IF index # NoIndex /\ Len(index) # Len(values) THEN Error("ValueError", 0)
    ELSE Series(<<>>, ListDtype(values), ListValues(values),
                IF index = NoIndex THEN RangeIndex(Len(values)) ELSE index)

\* new_frame with every list cut to the length of the shortest
new_frameShortest(data) ==
    LET n == IF data = <<>> THEN 0
             ELSE CHOOSE k \in {Len(data[i][2]) : i \in DOMAIN data} :
                      \A i \in DOMAIN data : k <= Len(data[i][2])
    IN Frame([i \in DOMAIN data |->
                 Column(data[i][1], ListDtype(SubSeq(data[i][2], 1, n)),
                        ListValues(SubSeq(data[i][2], 1, n)))],
             RangeIndex(n))

\* data is the dict's items in insertion order: <<name, list>> pairs with
\* distinct names
new_frame(data) ==
    IF \E i, j \in DOMAIN data : Len(data[i][2]) # Len(data[j][2])
    THEN Error("ValueError", 0)
    ELSE Frame([i \in DOMAIN data |->
                   Column(data[i][1], ListDtype(data[i][2]), ListValues(data[i][2]))],
               IF data = <<>> THEN <<>> ELSE RangeIndex(Len(data[1][2])))

(***************************************************************************)
(* The weather file Kumpula-June-2016-w-metadata.txt: the eight lines of   *)
(* metadata the notebook quotes (the eighth is blank), the header and the  *)
(* 30 daily rows of June 2016.  The file is not part of the repository:    *)
(* the temperatures of its rows are drawn from the variants WeatherFile(0) *)
(* .. WeatherFile(MaxSeed).                                                *)
(***************************************************************************)
\* the lines of metadata, as the notebook quotes them
Metadata ==
    <<<<"#", " ", "D", "a", "t", "a", " ", "f", "i", "l", "e", " ", "c", "o",
        "n", "t", "e", "n", "t", "s", ":", " ", "D", "a", "i", "l", "y", " ",
        "t", "e", "m", "p", "e", "r", "a", "t", "u", "r", "e", "s", " ", "(",
        "m", "e", "a", "n", ",", " ", "m", "i", "n", ",", " ", "m", "a", "x",
        ")", " ", "f", "o", "r", " ", "K", "u", "m", "p", "u", "l", "a", ",",
        " ", "H", "e", "l", "s", "i", "n", "k", "i">>,
      <<"#", " ", " ", " ", " ", " ", " ", " ", " ", " ", " ", " ", " ", " ",
        " ", " ", " ", " ", " ", " ", " ", " ", "f", "o", "r", " ", "J", "u",
        "n", "e", " ", "1", "-", "3", "0", ",", " ", "2", "0", "1", "6">>,
      <<"#", " ", "D", "a", "t", "a", " ", "s", "o", "u", "r", "c", "e", ":",
        " ", "h", "t", "t", "p", "s", ":", "/", "/", "w", "w", "w", ".", "n",
        "c", "d", "c", ".", "n", "o", "a", "a", ".", "g", "o", "v", "/", "c",
        "d", "o", "-", "w", "e", "b", "/", "s", "e", "a", "r", "c", "h", "?",
        "d", "a", "t", "a", "s", "e", "t", "i", "d", "=", "G", "H", "C", "N",
        "D">>,
      <<"#", " ", "D", "a", "t", "a", " ", "p", "r", "o", "c", "e", "s", "s",
        "i", "n", "g", ":", " ", "E", "x", "t", "r", "a", "c", "t", "e", "d",
        " ", "t", "e", "m", "p", "e", "r", "a", "t", "u", "r", "e", "s", " ",
        "f", "r", "o", "m", " ", "r", "a", "w", " ", "d", "a", "t", "a", " ",
        "f", "i", "l", "e", ",", " ", "c", "o", "n", "v", "e", "r", "t", "e",
        "d", " ", "t", "o">>,
      <<"#", " ", " ", " ", " ", " ", " ", " ", " ", " ", " ", " ", " ", " ",
        " ", " ", " ", " ", " ", "c", "o", "m", "m", "a", "-", "s", "e", "p",
        "a", "r", "a", "t", "e", "d", " ", "f", "o", "r", "m", "a", "t">>,
      <<"#">>,
      <<"#", " ", "D", "a", "v", "i", "d", " ", "W", "h", "i", "p", "p", " ",
        "-", " ", "0", "2", ".", "1", "0", ".", "2", "0", "1", "7">>,
      <<>>>>

YEARMODA == <<"Y", "E", "A", "R", "M", "O", "D", "A">>

TEMP == <<"T", "E", "M", "P">>

MAX == <<"M", "A", "X">>

MIN == <<"M", "I", "N">>

WeatherHeader == YEARMODA \o <<Comma>> \o TEMP \o <<Comma>> \o MAX \o <<Comma>> \o MIN

\* the number of lines of metadata before the header
MetaLines == 8

\* the number of data rows
WeatherRows == 30

TempCells ==
    <<<<"6", "5", ".", "5">>,
      <<"6", "5", ".", "8">>,
      <<"6", "8", ".", "4">>,
      <<"5", "7", ".", "5">>,
      <<"5", "1", ".", "4">>>>

MaxCells ==
    <<<<"7", "3", ".", "6">>,
      <<"8", "0", ".", "8">>,
      <<"7", "7", ".", "9">>,
      <<"7", "0", ".", "9">>,
      <<"5", "8", ".", "3">>>>

MinCells ==
    <<<<"5", "4", ".", "7">>,
      <<"5", "5", ".", "0">>,
      <<"5", "5", ".", "6">>,
      <<"4", "7", ".", "3">>,
      <<"4", "3", ".", "2">>>>

\* the day of June as two digits
DayText(i) == IF i < 10 THEN <<"0">> \o NatText(i) ELSE NatText(i)

WeatherRow(i, seed) ==
    <<"2", "0", "1", "6", "0", "6">> \o DayText(i) \o <<Comma>>
    \o TempCells[((i + seed) % Len(TempCells)) + 1] \o <<Comma>>
    \o MaxCells[((i + 2 * seed) % Len(MaxCells)) + 1] \o <<Comma>>
    \o MinCells[((i + 3 * seed) % Len(MinCells)) + 1]

WeatherFile(seed) ==
    Metadata \o <<WeatherHeader>>
    \o [i \in 1..WeatherRows |-> WeatherRow(i, seed)]

(***************************************************************************)
(* State.                                                                  *)
(*   source         the accessor: what the caller builds its table from    *)
(*   cur, last      the table (or series) the caller holds, and the last   *)
(*                  call with its arguments and its result                 *)
(*   pc .. out      the notebook: the statement to run next, the weather   *)
(*                  file, its variables, and the value the last statement  *)
(*                  displayed                                              *)
(***************************************************************************)
VARIABLES source, cur, last, pc, file, data, temp_data, number_series, stations, lats,
          lons, new_data, df, out

accessorVars == <<source, cur, last>>

notebookVars ==
    <<pc, file, data, temp_data, number_series, stations, lats, lons, new_data,
      df, out>>

vars == <<source, cur, last, pc, file, data, temp_data, number_series, stations, lats,
          lons, new_data, df, out>>

(***************************************************************************)
(* Inputs of Spec.                                                         *)
(***************************************************************************)
NameA == <<"a">>

NameB == <<"b">>

NameZ == <<"z">>

\* the lines the small input files are made of: a header, rows of two
\* fields, a short row, a long row, a blank line, a row with an empty cell,
\* a header that repeats a name, a row with a boolean and a missing value
LinePool ==
    {<<"a", ",", "b">>,
     <<"1", ",", "2", ".", "5">>,
     <<"3">>,
     <<"4", ",", "x", ",", "7">>,
     <<>>,
     <<"5", ",">>,
     <<"a", ",", "a">>,
     <<"T", "r", "u", "e", ",", "N", "a", "N">>}

\* The files whose tables Spec operates on are a header line followed by
\* rows: a header of two names or one that repeats a name; a row of an
\* integer and a decimal, of a missing value and an integer, of a boolean
\* and a text.
TableHeaders ==
    {<<"a", ",", "b">>,
     <<"a", ",", "a">>}

TableRows ==
    {<<"1", ",", "2", ".", "5">>,
     <<",", "5">>,
     <<"T", "r", "u", "e", ",", "x">>}

RECURSIVE FilesOfLength(_, _)
FilesOfLength(lines, n) ==
    IF n = 0 THEN {<<>>}
    ELSE {<<l>> \o f : l \in lines, f \in FilesOfLength(lines, n - 1)}

\* the files of at most MaxLines lines
FilesOver(lines) == UNION {FilesOfLength(lines, n) : n \in 0..MaxLines}

\* the files of a header and at most MaxLines - 1 rows
TableFiles ==
    {<<h>> \o rows : h \in TableHeaders,
                     rows \in UNION {FilesOfLength(TableRows, n) : n \in 0..(MaxLines - 1)}}

\* whether the first data row read has more fields than the header
FirstRowLonger(f, sep, skiprows) ==
    LET kept == KeptLines(f, skiprows, 1)
    IN Len(kept) >= 2 /\ Len(Split(f[kept[2]], sep)) > Len(Split(f[kept[1]], sep))

\* The calls of read_csv on small files: every file with every skiprows up
\* to its length and no usecols or one of three (one of them names no
\* column).  usecols is not combined with a first data row longer than the
\* header (pandas then takes the row's leading fields as the index).
ParseCalls(files) ==
    {c \in [kind : {"file"}, file : files, skiprows : 0..MaxLines,
            usecols : {NoUsecols, {NameA}, {NameA, NameB}, {NameZ}},
            data : {<<>>}, index : {NoIndex}] :
        /\ c.skiprows <= Len(c.file)
        /\ c.usecols # NoUsecols => ~FirstRowLonger(c.file, Comma, c.skiprows)}

\* The calls of read_csv on the weather file: every variant of the file
\* with every skiprows up to the first data row, and all the columns or the
\* two the notebook reads.
WeatherCalls ==
    {c \in [kind : {"file"}, file : {WeatherFile(seed) : seed \in 0..MaxSeed},
            skiprows : 0..(MetaLines + 1),
            usecols : {NoUsecols, {YEARMODA, TEMP}},
            data : {<<>>}, index : {NoIndex}] :
        c.usecols # NoUsecols => ~FirstRowLonger(c.file, Comma, c.skiprows)}

\* the lists of Python values the constructors are given
ListPool ==
    {<<>>,
     <<IntV(1), IntV(2)>>,
     <<IntV(1), IntV(2), IntV(3)>>,
     <<IntV(4), IntV(5), IntV(6), FloatV(7, 1)>>,
     <<StrV(<<"x">>), IntV(2)>>}

\* dicts of at most two lists
Mappings ==
    {<<>>}
    \cup {<<<<n, l>>>> : n \in {NameA, NameB}, l \in ListPool}
    \cup {<<<<NameA, l1>>, <<NameB, l2>>>> : l1 \in ListPool, l2 \in ListPool}
    \cup {<<<<NameB, l1>>, <<NameA, l2>>>> : l1 \in ListPool, l2 \in ListPool}

Labels == <<<<StrV(<<"a">>)>>, <<StrV(<<"b">>)>>, <<StrV(<<"c">>)>>, <<StrV(<<"d">>)>>>>

NameLists ==
    {<<>>, <<NameA>>, <<NameB>>, <<NameB, NameA>>, <<NameA, NameA>>,
     <<NameA, NameZ>>}

\* n as passed to head and tail: omitted, or a number
NArgs == {<<>>} \cup {<<n>> : n \in 0..MaxN}

\* the default of head(n=5) and tail(n=5)
DefaultN == 5

NOf(args) == IF args = <<>> THEN DefaultN ELSE args[1]

\* what a caller starts from: a file to parse, a dict of lists, a list (with
\* or without labels), or nothing
Sources ==
    ParseCalls(TableFiles)
    \cup [kind : {"mapping"}, file : {<<>>}, skiprows : {0}, usecols : {NoUsecols},
          data : Mappings, index : {NoIndex}]
    \cup [kind : {"list"}, file : {<<>>}, skiprows : {0}, usecols : {NoUsecols},
          data : ListPool, index : {NoIndex, Labels}]
    \cup [kind : {"nothing"}, file : {<<>>}, skiprows : {0}, usecols : {NoUsecols},
          data : {<<>>}, index : {NoIndex}]

NoSource ==
    [kind |-> "none", file |-> <<>>, skiprows |-> 0, usecols |-> NoUsecols,
     data |-> <<>>, index |-> NoIndex]

Excludes == {NoExclude, {"int64"}, {"object"}, {"int64", "float64"}}

(***************************************************************************)
(* Spec: the accessor's operations.                                        *)
(***************************************************************************)
NoCall ==
    [op |-> "none", file |-> <<>>, skiprows |-> 0, usecols |-> NoUsecols,
     data |-> <<>>, index |-> NoIndex, names |-> <<>>, n |-> <<>>,
     exclude |-> NoExclude, fn |-> "", input |-> Unbound, result |-> Unbound]

\* the caller keeps the result of a call that returned one
Adopt(result) == IF result.kind = "error" THEN cur ELSE result

Init ==
    /\ source \in Sources
    /\ cur = Unbound
    /\ last = NoCall
    /\ pc = "idle"
    /\ file = <<>>
    /\ data = Unbound
    /\ temp_data = Unbound
    /\ number_series = Unbound
    /\ stations = <<>>
    /\ lats = <<>>
    /\ lons = <<>>
    /\ new_data = Unbound
    /\ df = Unbound
    /\ out = Unbound

\* parse(source, delimiter, skip_leading_rows, selected_columns)
Parse ==
    /\ source.kind = "file"
    /\ LET r == read_csv(source.file, Comma, source.skiprows, source.usecols)
       IN /\ last' = [NoCall EXCEPT !.op = "parse", !.file = source.file,
                                    !.skiprows = source.skiprows,
                                    !.usecols = source.usecols, !.result = r]
          /\ cur' = Adopt(r)
    /\ source' = NoSource
    /\ UNCHANGED notebookVars

\* from_mapping(named_sequences)
FromMapping ==
    /\ source.kind = "mapping"
    /\ LET r == new_frame(source.data)
       IN /\ last' = [NoCall EXCEPT !.op = "from_mapping", !.data = source.data,
                                    !.result = r]
          /\ cur' = Adopt(r)
    /\ source' = NoSource
    /\ UNCHANGED notebookVars

\* empty_table()
EmptyTable ==
    /\ source.kind = "nothing"
    /\ last' = [NoCall EXCEPT !.op = "empty_table", !.result = EmptyFrame]
    /\ cur' = EmptyFrame
    /\ source' = NoSource
    /\ UNCHANGED notebookVars

\* a standalone column from a list, with or without labels
NewSeries ==
    /\ source.kind = "list"
    /\ LET r == new_series(source.data, source.index)
       IN /\ last' = [NoCall EXCEPT !.op = "series", !.data = source.data,
                                    !.index = source.index, !.result = r]
          /\ cur' = Adopt(r)
    /\ source' = NoSource
    /\ UNCHANGED notebookVars

\* select(table, column_names)
Select(names) ==
    /\ cur.kind = "frame"
    /\ LET r == getitem_list(cur, names)
       IN /\ r.kind = "frame" => NCols(r) <= MaxCols
          /\ last' = [NoCall EXCEPT !.op = "select", !.names = names,
                                    !.input = cur, !.result = r]
          /\ cur' = Adopt(r)
    /\ UNCHANGED <<source, notebookVars>>

\* select_one(table, column_name)
SelectOne(name) ==
    /\ cur.kind = "frame"
    /\ LET r == getitem(cur, name)
       IN /\ last' = [NoCall EXCEPT !.op = "select_one", !.names = <<name>>,
                                    !.input = cur, !.result = r]
          /\ cur' = Adopt(r)
    /\ UNCHANGED <<source, notebookVars>>

\* head(table, n=5)
Head_(args) ==
    /\ cur.kind = "frame"
    /\ LET r == head(cur, NOf(args))
       IN /\ last' = [NoCall EXCEPT !.op = "head", !.n = args,
                                    !.input = cur, !.result = r]
          /\ cur' = r
    /\ UNCHANGED <<source, notebookVars>>

\* tail(table, n=5)
Tail_(args) ==
    /\ cur.kind = "frame"
    /\ LET r == tail(cur, NOf(args))
       IN /\ last' = [NoCall EXCEPT !.op = "tail", !.n = args,
                                    !.input = cur, !.result = r]
          /\ cur' = r
    /\ UNCHANGED <<source, notebookVars>>

\* describe(table, exclude_types); the caller keeps the table described
Describe(exclude) ==
    /\ cur.kind = "frame"
    /\ last' = [NoCall EXCEPT !.op = "describe", !.exclude = exclude,
                              !.input = cur, !.result = describe(cur, exclude)]
    /\ UNCHANGED <<source, cur, notebookVars>>

\* mean(column), min(column), max(column), std(column) of a numeric column
Reduce(fn) ==
    /\ cur.kind = "series"
    /\ IsNumericDtype(cur.dtype)
    /\ last' = [NoCall EXCEPT !.op = "reduce", !.fn = fn, !.input = cur,
                              !.result = Scalar(reduce(fn, cur.values, cur.dtype))]
    /\ UNCHANGED <<source, cur, notebookVars>>

Next ==
    \/ Parse
    \/ FromMapping
    \/ EmptyTable
    \/ NewSeries
    \/ \E names \in NameLists : Select(names)
    \/ \E name \in {NameA, NameB, NameZ} : SelectOne(name)
    \/ \E args \in NArgs : Head_(args)
    \/ \E args \in NArgs : Tail_(args)
    \/ \E exclude \in Excludes : Describe(exclude)
    \/ \E fn \in Reductions : Reduce(fn)

Spec == Init /\ [][Next]_vars

(***************************************************************************)
(* ParseSpec: parse alone, on the small files and on the weather file.     *)
(***************************************************************************)
ParseInit ==
    /\ source \in ParseCalls(FilesOver(LinePool)) \cup WeatherCalls
    /\ cur = Unbound
    /\ last = NoCall
    /\ pc = "idle"
    /\ file = <<>>
    /\ data = Unbound
    /\ temp_data = Unbound
    /\ number_series = Unbound
    /\ stations = <<>>
    /\ lats = <<>>
    /\ lons = <<>>
    /\ new_data = Unbound
    /\ df = Unbound
    /\ out = Unbound

ParseNext == Parse

ParseSpec == ParseInit /\ [][ParseNext]_vars

(***************************************************************************)
(* NotebookSpec: the statements of the notebook, in order.  pc names the   *)
(* line of the statement to run next; a statement that raises ends the run *)
(* (pc = "error") with the exception as the value displayed.               *)
(***************************************************************************)
Raises(r) == r.kind = "error"

After(next, r) == IF Raises(r) THEN "error" ELSE next

\* the value a name is bound to after an assignment of r
Bind(old, r) == IF Raises(r) THEN old ELSE r

\* what is displayed after an assignment of r
Raised(old, r) == IF Raises(r) THEN r ELSE old

TypeNamed(name) == [kind |-> "type", name |-> name]

\* type(x)
TypeOf(x) ==
    IF Raises(x) THEN x
    ELSE TypeNamed(IF x.kind = "frame" THEN "DataFrame" ELSE "Series")

\* t.shape
Shape(t) == [kind |-> "tuple", items |-> <<NRows(t), NCols(t)>>]

\* t.index
IndexOf(labels) == [kind |-> "index", labels |-> labels]

\* t.columns
ColumnsOf(t) == IndexOf([c \in DOMAIN t.columns |-> <<StrV(t.columns[c].name)>>])

\* t.dtypes
DtypesOf(t) == [kind |-> "dtypes", names |-> ColumnNames(t), dtypes |-> Dtypes(t)]

\* x[name], for x the result of a selection
Then(x, name) == IF Raises(x) THEN x ELSE getitem(x, name)

\* column.mean()
MeanOf(column) ==
    IF Raises(column) THEN column ELSE Scalar(series_mean(column.values))

\* t.plot(): one line per column
PlotOf(t) == IF Raises(t) THEN t ELSE [kind |-> "axes", lines |-> t.columns]

\* [4, 5, 6, 7.0]
NumberList == <<IntV(4), IntV(5), IntV(6), FloatV(7, 1)>>

StationNames ==
    <<StrV(<<"H", "a", "n", "k", "o", " ", "R", "u", "s", "s", "a", "r", "ö">>),
      StrV(<<"H", "e", "i", "n", "o", "l", "a", " ", "A", "s", "e", "m", "a", "n", "t", "a", "u", "s">>),
      StrV(<<"H", "e", "l", "s", "i", "n", "k", "i", " ", "K", "a", "i", "s", "a", "n", "i", "e", "m", "i">>),
      StrV(<<"H", "e", "l", "s", "i", "n", "k", "i", " ", "M", "a", "l", "m", "i", " ", "a", "i", "r", "f", "i", "e", "l", "d">>)>>

Latitudes == <<FloatV(5977, 100), FloatV(612, 10), FloatV(6018, 100), FloatV(6025, 100)>>

Longitudes == <<FloatV(2295, 100), FloatV(2605, 100), FloatV(2494, 100), FloatV(2505, 100)>>

StationNameKey == <<"S", "t", "a", "t", "i", "o", "n", " ", "n", "a", "m", "e">>

LatitudeKey == <<"L", "a", "t", "i", "t", "u", "d", "e">>

LongitudeKey == <<"L", "o", "n", "g", "i", "t", "u", "d", "e">>

NotebookInit ==
    /\ source = NoSource
    /\ cur = Unbound
    /\ last = NoCall
    /\ pc = "L53"
    /\ file \in {WeatherFile(seed) : seed \in 0..MaxSeed}
    /\ data = Unbound
    /\ temp_data = Unbound
    /\ number_series = Unbound
    /\ stations = <<>>
    /\ lats = <<>>
    /\ lons = <<>>
    /\ new_data = Unbound
    /\ df = Unbound
    /\ out = Unbound

\* line 53: data = pd.read_csv("Kumpula-June-2016-w-metadata.txt", sep=",")
ReadData ==
    /\ pc = "L53"
    /\ LET r == read_csv(file, Comma, 0, NoUsecols)
       IN /\ data' = Bind(data, r)
          /\ out' = Raised(out, r)
          /\ pc' = After("L79", r)
    /\ UNCHANGED <<accessorVars, file, temp_data, number_series, stations,
                   lats, lons, new_data, df>>

\* line 79: data
ShowData ==
    /\ pc = "L79"
    /\ out' = data
    /\ pc' = After("L117", out')
    /\ UNCHANGED <<accessorVars, file, data, temp_data, number_series,
                   stations, lats, lons, new_data, df>>

\* line 117: data.head()
HeadDefault ==
    /\ pc = "L117"
    /\ out' = head(data, DefaultN)
    /\ pc' = After("L120", out')
    /\ UNCHANGED <<accessorVars, file, data, temp_data, number_series,
                   stations, lats, lons, new_data, df>>

\* line 120: data.head(3)
Head3 ==
    /\ pc = "L120"
    /\ out' = head(data, 3)
    /\ pc' = After("L126", out')
    /\ UNCHANGED <<accessorVars, file, data, temp_data, number_series,
                   stations, lats, lons, new_data, df>>

\* line 126: data.tail(6)
Tail6 ==
    /\ pc = "L126"
    /\ out' = tail(data, 6)
    /\ pc' = After("L138", out')
    /\ UNCHANGED <<accessorVars, file, data, temp_data, number_series,
                   stations, lats, lons, new_data, df>>

\* line 138: type(data)
TypeOfData ==
    /\ pc = "L138"
    /\ out' = TypeOf(data)
    /\ pc' = After("L150", out')
    /\ UNCHANGED <<accessorVars, file, data, temp_data, number_series,
                   stations, lats, lons, new_data, df>>

\* line 150:
\*   temp_data = pd.read_csv("Kumpula-June-2016-w-metadata.txt", sep=",", skiprows=8, usecols=["YEARMODA","TEMP"])
ReadTempData ==
    /\ pc = "L150"
    /\ LET r == read_csv(file, Comma, 8, {YEARMODA, TEMP})
       IN /\ temp_data' = Bind(temp_data, r)
          /\ out' = Raised(out, r)
          /\ pc' = After("L151", r)
    /\ UNCHANGED <<accessorVars, file, data, number_series, stations, lats,
                   lons, new_data, df>>

\* line 151: temp_data
ShowTempData ==
    /\ pc = "L151"
    /\ out' = temp_data
    /\ pc' = After("L164", out')
    /\ UNCHANGED <<accessorVars, file, data, temp_data, number_series,
                   stations, lats, lons, new_data, df>>

\* line 164: len(data)
LenData ==
    /\ pc = "L164"
    /\ out' = Scalar(IntV(NRows(data)))
    /\ pc' = After("L172", out')
    /\ UNCHANGED <<accessorVars, file, data, temp_data, number_series,
                   stations, lats, lons, new_data, df>>

\* line 172: data.shape
ShapeOfData ==
    /\ pc = "L172"
    /\ out' = Shape(data)
    /\ pc' = After("L185", out')
    /\ UNCHANGED <<accessorVars, file, data, temp_data, number_series,
                   stations, lats, lons, new_data, df>>

\* line 185: type(data.columns.to_list())
TypeOfColumnList ==
    /\ pc = "L185"
    /\ out' = TypeNamed("list")
    /\ pc' = After("L192", out')
    /\ UNCHANGED <<accessorVars, file, data, temp_data, number_series,
                   stations, lats, lons, new_data, df>>

\* line 192: data.index
IndexOfData ==
    /\ pc = "L192"
    /\ out' = IndexOf(data.index)
    /\ pc' = After("L202", out')
    /\ UNCHANGED <<accessorVars, file, data, temp_data, number_series,
                   stations, lats, lons, new_data, df>>

\* line 202: data.dtypes
DtypesOfData ==
    /\ pc = "L202"
    /\ out' = DtypesOf(data)
    /\ pc' = After("L214", out')
    /\ UNCHANGED <<accessorVars, file, data, temp_data, number_series,
                   stations, lats, lons, new_data, df>>

\* line 214: data.columns
ColumnsOfData ==
    /\ pc = "L214"
    /\ out' = ColumnsOf(data)
    /\ pc' = After("L217", out')
    /\ UNCHANGED <<accessorVars, file, data, temp_data, number_series,
                   stations, lats, lons, new_data, df>>

\* line 217: len(data.columns)
LenColumns ==
    /\ pc = "L217"
    /\ out' = Scalar(IntV(NCols(data)))
    /\ pc' = After("L225", out')
    /\ UNCHANGED <<accessorVars, file, data, temp_data, number_series,
                   stations, lats, lons, new_data, df>>

\* line 225: temp_data[["YEARMODA","TEMP"]]
SelectTwo ==
    /\ pc = "L225"
    /\ out' = getitem_list(temp_data, <<YEARMODA, TEMP>>)
    /\ pc' = After("L231", out')
    /\ UNCHANGED <<accessorVars, file, data, temp_data, number_series,
                   stations, lats, lons, new_data, df>>

\* line 231: type(temp_data[["YEARMODA","TEMP"]])
TypeOfSelection ==
    /\ pc = "L231"
    /\ out' = TypeOf(getitem_list(temp_data, <<YEARMODA, TEMP>>))
    /\ pc' = After("L243", out')
    /\ UNCHANGED <<accessorVars, file, data, temp_data, number_series,
                   stations, lats, lons, new_data, df>>

\* line 243: temp_data[["YEARMODA","TEMP"]]["TEMP"]
SelectTwoThenOne ==
    /\ pc = "L243"
    /\ out' = Then(getitem_list(temp_data, <<YEARMODA, TEMP>>), TEMP)
    /\ pc' = After("L250", out')
    /\ UNCHANGED <<accessorVars, file, data, temp_data, number_series,
                   stations, lats, lons, new_data, df>>

\* line 250: temp_data.TEMP
AttrTEMP ==
    /\ pc = "L250"
    /\ out' = getitem(temp_data, TEMP)
    /\ pc' = After("L253", out')
    /\ UNCHANGED <<accessorVars, file, data, temp_data, number_series,
                   stations, lats, lons, new_data, df>>

\* line 253: temp_data.YEARMODA
AttrYEARMODA ==
    /\ pc = "L253"
    /\ out' = getitem(temp_data, YEARMODA)
    /\ pc' = After("L277", out')
    /\ UNCHANGED <<accessorVars, file, data, temp_data, number_series,
                   stations, lats, lons, new_data, df>>

\* line 277: temp_data.mean()
FrameMean ==
    /\ pc = "L277"
    /\ out' = frame_mean(temp_data)
    /\ pc' = After("L284", out')
    /\ UNCHANGED <<accessorVars, file, data, temp_data, number_series,
                   stations, lats, lons, new_data, df>>

\* line 284: temp_data.TEMP.mean()
ColumnMean ==
    /\ pc = "L284"
    /\ out' = MeanOf(getitem(temp_data, TEMP))
    /\ pc' = After("L292", out')
    /\ UNCHANGED <<accessorVars, file, data, temp_data, number_series,
                   stations, lats, lons, new_data, df>>

\* line 292: temp_data.describe()
DescribeAll ==
    /\ pc = "L292"
    /\ out' = describe(temp_data, NoExclude)
    /\ pc' = After("L302", out')
    /\ UNCHANGED <<accessorVars, file, data, temp_data, number_series,
                   stations, lats, lons, new_data, df>>

\* line 302: temp_data.dtypes
DtypesOfTempData ==
    /\ pc = "L302"
    /\ out' = DtypesOf(temp_data)
    /\ pc' = After("L306", out')
    /\ UNCHANGED <<accessorVars, file, data, temp_data, number_series,
                   stations, lats, lons, new_data, df>>

\* line 306: temp_data.describe(exclude=["int64"])
DescribeExclude ==
    /\ pc = "L306"
    /\ out' = describe(temp_data, {"int64"})
    /\ pc' = After("L318", out')
    /\ UNCHANGED <<accessorVars, file, data, temp_data, number_series,
                   stations, lats, lons, new_data, df>>

\* line 318: temp_data[["TEMP"]].plot()
Plot ==
    /\ pc = "L318"
    /\ out' = PlotOf(getitem_list(temp_data, <<TEMP>>))
    /\ pc' = After("L330", out')
    /\ UNCHANGED <<accessorVars, file, data, temp_data, number_series,
                   stations, lats, lons, new_data, df>>

\* line 330: number_series = pd.Series([4, 5, 6, 7.0])
MakeSeries ==
    /\ pc = "L330"
    /\ LET r == new_series(NumberList, NoIndex)
       IN /\ number_series' = Bind(number_series, r)
          /\ out' = Raised(out, r)
          /\ pc' = After("L331", r)
    /\ UNCHANGED <<accessorVars, file, data, temp_data, stations, lats, lons,
                   new_data, df>>

\* line 331: print(number_series)
PrintSeries ==
    /\ pc = "L331"
    /\ out' = number_series
    /\ pc' = After("L340", out')
    /\ UNCHANGED <<accessorVars, file, data, temp_data, number_series,
                   stations, lats, lons, new_data, df>>

\* line 340:
\*   number_series = pd.Series([4, 5, 6, 7.0], index=["a", "b", "c", "d"])
MakeLabelledSeries ==
    /\ pc = "L340"
    /\ LET r == new_series(NumberList, Labels)
       IN /\ number_series' = Bind(number_series, r)
          /\ out' = Raised(out, r)
          /\ pc' = After("L341", r)
    /\ UNCHANGED <<accessorVars, file, data, temp_data, stations, lats, lons,
                   new_data, df>>

\* line 341: print(number_series)
PrintLabelledSeries ==
    /\ pc = "L341"
    /\ out' = number_series
    /\ pc' = After("L344", out')
    /\ UNCHANGED <<accessorVars, file, data, temp_data, number_series,
                   stations, lats, lons, new_data, df>>

\* line 344: type(number_series)
TypeOfSeries ==
    /\ pc = "L344"
    /\ out' = TypeOf(number_series)
    /\ pc' = After("L351", out')
    /\ UNCHANGED <<accessorVars, file, data, temp_data, number_series,
                   stations, lats, lons, new_data, df>>

\* line 351: stations = [...]
MakeStations ==
    /\ pc = "L351"
    /\ stations' = StationNames
    /\ pc' = "L359"
    /\ UNCHANGED <<accessorVars, file, data, temp_data, number_series, lats,
                   lons, new_data, df, out>>

\* line 359: lats = [59.77, 61.2, 60.18, 60.25]
MakeLats ==
    /\ pc = "L359"
    /\ lats' = Latitudes
    /\ pc' = "L362"
    /\ UNCHANGED <<accessorVars, file, data, temp_data, number_series,
                   stations, lons, new_data, df, out>>

\* line 362: lons = [22.95, 26.05, 24.94, 25.05]
MakeLons ==
    /\ pc = "L362"
    /\ lons' = Longitudes
    /\ pc' = "L368"
    /\ UNCHANGED <<accessorVars, file, data, temp_data, number_series,
                   stations, lats, new_data, df, out>>

\* line 368:
\*   new_data = pd.DataFrame(data={"Station name": stations, "Latitude": lats, "Longitude": lons})
MakeNewData ==
    /\ pc = "L368"
    /\ LET r == new_frame(<<<<StationNameKey, stations>>, <<LatitudeKey, lats>>, <<LongitudeKey, lons>>>>)
       IN /\ new_data' = Bind(new_data, r)
          /\ out' = Raised(out, r)
          /\ pc' = After("L369", r)
    /\ UNCHANGED <<accessorVars, file, data, temp_data, number_series,
                   stations, lats, lons, df>>

\* line 369: new_data
ShowNewData ==
    /\ pc = "L369"
    /\ out' = new_data
    /\ pc' = After("L372", out')
    /\ UNCHANGED <<accessorVars, file, data, temp_data, number_series,
                   stations, lats, lons, new_data, df>>

\* line 372: type(new_data)
TypeOfNewData ==
    /\ pc = "L372"
    /\ out' = TypeOf(new_data)
    /\ pc' = After("L378", out')
    /\ UNCHANGED <<accessorVars, file, data, temp_data, number_series,
                   stations, lats, lons, new_data, df>>

\* line 378: df = pd.DataFrame()
MakeDf ==
    /\ pc = "L378"
    /\ LET r == EmptyFrame
       IN /\ df' = Bind(df, r)
          /\ out' = Raised(out, r)
          /\ pc' = After("L381", r)
    /\ UNCHANGED <<accessorVars, file, data, temp_data, number_series,
                   stations, lats, lons, new_data>>

\* line 381: print(df)
PrintDf ==
    /\ pc = "L381"
    /\ out' = df
    /\ pc' = After("done", out')
    /\ UNCHANGED <<accessorVars, file, data, temp_data, number_series,
                   stations, lats, lons, new_data, df>>

NotebookNext ==
    \/ ReadData
    \/ ShowData
    \/ HeadDefault
    \/ Head3
    \/ Tail6
    \/ TypeOfData
    \/ ReadTempData
    \/ ShowTempData
    \/ LenData
    \/ ShapeOfData
    \/ TypeOfColumnList
    \/ IndexOfData
    \/ DtypesOfData
    \/ ColumnsOfData
    \/ LenColumns
    \/ SelectTwo
    \/ TypeOfSelection
    \/ SelectTwoThenOne
    \/ AttrTEMP
    \/ AttrYEARMODA
    \/ FrameMean
    \/ ColumnMean
    \/ DescribeAll
    \/ DtypesOfTempData
    \/ DescribeExclude
    \/ Plot
    \/ MakeSeries
    \/ PrintSeries
    \/ MakeLabelledSeries
    \/ PrintLabelledSeries
    \/ TypeOfSeries
    \/ MakeStations
    \/ MakeLats
    \/ MakeLons
    \/ MakeNewData
    \/ ShowNewData
    \/ TypeOfNewData
    \/ MakeDf
    \/ PrintDf

NotebookSpec == NotebookInit /\ [][NotebookNext]_vars

(***************************************************************************)
(* The claims.  Each is stated over the specification it is checked under. *)
(***************************************************************************)

\* the statements at which the notebook inspects data: len(data),
\* data.shape, data.index, data.columns
InspectsData == {"L164", "L172", "L192", "L214"}

\* C2 (NotebookSpec): when the notebook is about to inspect data, data has 30
\* rows and 4 columns named YEARMODA, TEMP, MAX, MIN with row labels 0 to
\* 29: it is the table parsed with the 8 metadata lines skipped.
C2_InspectedDataSkipsMetadata ==
    pc \in InspectsData =>
        /\ data.kind = "frame"
        /\ NRows(data) = WeatherRows
        /\ NCols(data) = 4
        /\ ColumnNames(data) = <<YEARMODA, TEMP, MAX, MIN>>
        /\ data.index = RangeIndex(WeatherRows)
        /\ data = read_csv(file, Comma, MetaLines, NoUsecols)

\* C3 (NotebookSpec): what the notebook's describe(exclude=["int64"]) call
\* displays is count, mean, std, min, 25%, 50%, 75%, max of TEMP, MAX and
\* MIN, without YEARMODA.
C3_DescribeExcludeReportsTempMaxMin ==
    pc = "L318" =>
        /\ out.kind = "frame"
        /\ ColumnNames(out) = <<TEMP, MAX, MIN>>
        /\ out.index = [i \in 1..Len(NumericStats) |-> <<StrV(NumericStats[i])>>]

Lowest(S) == CHOOSE x \in S : \A y \in S : x <= y

\* a valid delimited input once k lines are dropped: a header line, then
\* data lines that each have as many fields as the header
ValidInput(f, k) ==
    /\ k < Len(f)
    /\ f[k + 1] # <<>>
    /\ \A i \in (k + 2)..Len(f) :
           /\ f[i] # <<>>
           /\ Len(Split(f[i], Comma)) = Len(Split(f[k + 1], Comma))

WeatherFiles == {WeatherFile(seed) : seed \in 0..MaxSeed}

\* C1 (ParseSpec): parse of a valid input with skip_leading_rows = k drops
\* exactly the first k lines, blank ones included, takes line k + 1 as the
\* header and returns a table of as many rows as lines remain and as many
\* columns as the header has fields (named by the header), or as many
\* columns as selected names when selected_columns is given; the weather
\* file read with 8 lines skipped has shape (30, 4), and (30, 2) when
\* YEARMODA and TEMP are selected.
C1_ParseShape ==
    last.op = "parse" =>
        LET f == last.file
            k == last.skiprows
            r == last.result
        IN /\ ValidInput(f, k) =>
                  LET header == Split(f[k + 1], Comma)
                      named == \A i, j \in DOMAIN header :
                                   /\ header[i] # <<>>
                                   /\ i # j => header[i] # header[j]
                  IN /\ last.usecols = NoUsecols =>
                            /\ r.kind = "frame"
                            /\ NRows(r) = Len(f) - k - 1
                            /\ NCols(r) = Len(header)
                            /\ named => ColumnNames(r) = header
                     /\ (last.usecols # NoUsecols /\ last.usecols \subseteq Range(header)) =>
                            /\ r.kind = "frame"
                            /\ NRows(r) = Len(f) - k - 1
                            /\ NCols(r) = Cardinality(last.usecols)
           /\ (f \in WeatherFiles /\ k = 8) =>
                  /\ ValidInput(f, k)
                  /\ r.kind = "frame"
                  /\ NRows(r) = 30
                  /\ last.usecols = NoUsecols =>
                         /\ NCols(r) = 4
                         /\ ColumnNames(r) = <<YEARMODA, TEMP, MAX, MIN>>
                  /\ last.usecols = {YEARMODA, TEMP} =>
                         /\ NCols(r) = 2
                         /\ ColumnNames(r) = <<YEARMODA, TEMP>>

\* the weather file read as the notebook reads temp_data: a blank line among
\* the 8 skipped, two columns selected, 30 rows returned
C1_Witness ==
    /\ last.op = "parse"
    /\ last.file \in WeatherFiles
    /\ last.skiprows = 8
    /\ last.file[8] = <<>>
    /\ last.usecols = {YEARMODA, TEMP}
    /\ last.result.kind = "frame"
    /\ NRows(last.result) = 30
    /\ NCols(last.result) = 2

\* the lines parse reads as header and data rows: those after the first k
\* that are not blank
ReadLines(f, k) == {i \in (k + 1)..Len(f) : f[i] # <<>>}

FieldCount(f, i) == Len(Split(f[i], Comma))

\* C4 as the specification states it (ParseSpec): a data row with more or
\* fewer fields than the header makes parse fail with an error naming the
\* line, and no table is returned.
C4_AnyMalformedRowFails ==
    (last.op = "parse" /\ ReadLines(last.file, last.skiprows) # {}) =>
        LET f == last.file
            lines == ReadLines(f, last.skiprows)
            hd == Lowest(lines)
            bad == {i \in lines \ {hd} : FieldCount(f, i) # FieldCount(f, hd)}
        IN bad # {} => last.result = Error("ParserError", Lowest(bad))

\* C4 amended (ParseSpec): without selected_columns, a data row other than
\* the first that has more fields than the wider of the header and the first
\* data row makes parse fail with an error naming that line, and no table is
\* returned; otherwise parse returns the whole table, and a row with fewer
\* fields has missing values in its trailing cells.
C4_LongRowFailsShortRowIsPadded ==
    (/\ last.op = "parse"
     /\ last.usecols = NoUsecols
     /\ ReadLines(last.file, last.skiprows) # {}) =>
        LET f == last.file
            r == last.result
            lines == ReadLines(f, last.skiprows)
            hd == Lowest(lines)
            rows == lines \ {hd}
            width == IF rows = {} THEN FieldCount(f, hd)
                     ELSE Max2(FieldCount(f, hd), FieldCount(f, Lowest(rows)))
            long == {i \in rows : i # Lowest(rows) /\ FieldCount(f, i) > width}
        IN /\ long # {} => r = Error("ParserError", Lowest(long))
           /\ long = {} =>
                  /\ r.kind = "frame"
                  /\ NRows(r) = Cardinality(rows)
                  /\ NCols(r) = FieldCount(f, hd)
                  /\ \A i \in rows : \A p \in 1..NCols(r) :
                         width - NCols(r) + p > FieldCount(f, i) =>
                             r.columns[p].values[Cardinality({j \in rows : j <= i})] = NaN

\* a third line with more fields than the two before it: the error names it
C4_Witness ==
    /\ last.op = "parse"
    /\ last.usecols = NoUsecols
    /\ last.skiprows = 0
    /\ Len(last.file) = 3
    /\ FieldCount(last.file, 1) = 2
    /\ FieldCount(last.file, 2) = 2
    /\ FieldCount(last.file, 3) = 3
    /\ last.result = Error("ParserError", 3)

DistinctNames(t) ==
    \A i, j \in DOMAIN t.columns : i # j => t.columns[i].name # t.columns[j].name

HasColumn(t, name) == \E c \in DOMAIN t.columns : t.columns[c].name = name

ColumnCalled(t, name) ==
    t.columns[CHOOSE c \in DOMAIN t.columns : t.columns[c].name = name]

\* what select(t, names) must return, given that every name is present
SelectsNames(t, names, r) ==
    /\ r.kind = "frame"
    /\ NRows(r) = NRows(t)
    /\ r.index = t.index
    /\ ColumnNames(r) = names
    /\ \A i \in DOMAIN names : r.columns[i] = ColumnCalled(t, names[i])

\* C5 as the specification states it (Spec): for every table t and every
\* list of names all present in t, select(t, names) has t's rows in t's
\* order with t's labels and exactly the columns names in the given order;
\* if a name is absent the operation fails with UnknownColumn.
C5_SelectOfAnyTable ==
    last.op = "select" =>
        IF \A i \in DOMAIN last.names : HasColumn(last.input, last.names[i])
        THEN SelectsNames(last.input, last.names, last.result)
        ELSE last.result = Error("KeyError", 0) /\ cur = last.input

\* C5 amended (Spec): the same, for every table t whose column names are
\* pairwise distinct.
C5_SelectOfDistinctlyNamedTable ==
    last.op = "select" =>
        IF \A i \in DOMAIN last.names : HasColumn(last.input, last.names[i])
        THEN DistinctNames(last.input) =>
                 SelectsNames(last.input, last.names, last.result)
        ELSE last.result = Error("KeyError", 0) /\ cur = last.input

\* two columns selected in the reverse of the table's order, of a table of
\* two rows or more
C5_Witness ==
    /\ last.op = "select"
    /\ last.names = <<NameB, NameA>>
    /\ ColumnNames(last.input) = <<NameA, NameB>>
    /\ NRows(last.input) >= 2
    /\ ColumnNames(last.result) = <<NameB, NameA>>

\* the rows lo .. hi of t
RowsOf(t, lo, hi, r) ==
    /\ r.kind = "frame"
    /\ r.index = SubSeq(t.index, lo, hi)
    /\ NCols(r) = NCols(t)
    /\ \A c \in DOMAIN t.columns :
           /\ r.columns[c].name = t.columns[c].name
           /\ r.columns[c].dtype = t.columns[c].dtype
           /\ r.columns[c].values = SubSeq(t.columns[c].values, lo, hi)

\* n as head and tail take it: 5 when it is not given
GivenN(args) == IF args = <<>> THEN 5 ELSE args[1]

\* C6 (Spec): for every table t and n >= 0 (5 when not given), head(t, n) is
\* the first min(n, len(t)) rows of t and tail(t, n) the last min(n, len(t))
\* rows, in t's order, with no error when n exceeds the row count; and
\* tail applied with k to the result of head(t, k) returns that result when
\* k <= len(t).
C6_HeadTail ==
    /\ [](last.op \in {"head", "tail"} =>
            LET t == last.input
                m == Min2(GivenN(last.n), NRows(t))
            IN /\ last.op = "head" => RowsOf(t, 1, m, last.result)
               /\ last.op = "tail" =>
                      RowsOf(t, NRows(t) - m + 1, NRows(t), last.result))
    /\ [][(/\ last.op = "head"
           /\ last'.op = "tail"
           /\ GivenN(last'.n) = GivenN(last.n)
           /\ GivenN(last.n) <= NRows(last.input))
          => (last'.input = last.result /\ last'.result = last.result)]_vars

\* the last row of a table of two rows
C6_Witness ==
    /\ last.op = "tail"
    /\ last.n = <<1>>
    /\ NRows(last.input) = 2
    /\ NCols(last.input) >= 1
    /\ last.result.index = <<<<IntV(1)>>>>

\* the dtype the amended C7 gives a column of cells
TypedCells(cells) ==
    IF cells = <<>> THEN "object"
    ELSE IF \A i \in DOMAIN cells : IsIntLiteral(cells[i]) /\ ~IsNA(cells[i])
    THEN "int64"
    ELSE IF \A i \in DOMAIN cells : IsNA(cells[i]) \/ IsDecLiteral(cells[i])
    THEN "float64"
    ELSE IF \A i \in DOMAIN cells : cells[i] \in TrueLiterals \cup FalseLiterals
    THEN "bool"
    ELSE "object"

\* the dtype the specification's C7 gives a column of cells
TypedCellsOfSpec(cells) ==
    IF \A i \in DOMAIN cells : IsIntLiteral(cells[i]) /\ ~IsNA(cells[i])
    THEN "int64"
    ELSE IF \A i \in DOMAIN cells : IsNA(cells[i]) \/ IsDecLiteral(cells[i])
    THEN "float64"
    ELSE "object"

TypedList(values) ==
    IF values = <<>> THEN "object"
    ELSE IF \A i \in DOMAIN values : values[i].k = "int" THEN "int64"
    ELSE IF \A i \in DOMAIN values : values[i].k \in {"int", "float", "nan"}
    THEN "float64"
    ELSE "object"

TypedListOfSpec(values) ==
    IF \A i \in DOMAIN values : values[i].k = "int" THEN "int64"
    ELSE IF \A i \in DOMAIN values : values[i].k \in {"int", "float", "nan"}
    THEN "float64"
    ELSE "object"

\* the cells of column p of a valid input read with k lines skipped
CellsOf(f, k, p) == [i \in 1..(Len(f) - k - 1) |-> Split(f[k + 1 + i], Comma)[p]]

\* [4, 5, 6, 7.0] is Float and its mean is 5.5
NumberListIsFloat ==
    /\ (last.op = "series" /\ last.data = NumberList) =>
           /\ last.result.kind = "series"
           /\ last.result.dtype = "float64"
           /\ last.result.values = <<FloatV(4, 1), FloatV(5, 1), FloatV(6, 1), FloatV(7, 1)>>
    /\ (/\ last.op = "reduce"
        /\ last.fn = "mean"
        /\ last.input.values = <<FloatV(4, 1), FloatV(5, 1), FloatV(6, 1), FloatV(7, 1)>>)
           => last.result = Scalar(FloatV(11, 2))

\* C7 as the specification states it (Spec): a column is Integer iff every
\* cell parses as an integer literal and none is missing, otherwise Float
\* iff every non-missing cell parses as a decimal number, otherwise Text;
\* [4, 5, 6, 7.0] is Float and its mean is 5.5.
C7_TypesOfSpec ==
    /\ (/\ last.op = "parse"
        /\ last.usecols = NoUsecols
        /\ ValidInput(last.file, last.skiprows)) =>
           \A p \in DOMAIN last.result.columns :
               last.result.columns[p].dtype =
                   TypedCellsOfSpec(CellsOf(last.file, last.skiprows, p))
    /\ (last.op = "series" /\ last.result.kind = "series") =>
           last.result.dtype = TypedListOfSpec(last.data)
    /\ NumberListIsFloat

\* C7 amended (Spec): a column of one cell or more is Integer iff every cell
\* parses as an integer literal and none is missing, otherwise Float iff
\* every non-missing cell parses as a decimal number, otherwise Boolean iff
\* every cell is a boolean literal, otherwise Text; a column of no cells is
\* Text; [4, 5, 6, 7.0] is Float and its mean is 5.5.
C7_Types ==
    /\ (/\ last.op = "parse"
        /\ last.usecols = NoUsecols
        /\ ValidInput(last.file, last.skiprows)) =>
           \A p \in DOMAIN last.result.columns :
               last.result.columns[p].dtype =
                   TypedCells(CellsOf(last.file, last.skiprows, p))
    /\ (last.op = "series" /\ last.result.kind = "series") =>
           last.result.dtype = TypedList(last.data)
    /\ NumberListIsFloat

\* a column that a missing cell keeps from being Integer: an integer in one
\* row, nothing in the other
C7_Witness ==
    /\ last.op = "parse"
    /\ last.usecols = NoUsecols
    /\ ValidInput(last.file, last.skiprows)
    /\ Len(last.file) - last.skiprows = 3
    /\ \E p \in DOMAIN last.result.columns :
           /\ last.result.columns[p].dtype = "float64"
           /\ \E i \in 1..2 : CellsOf(last.file, last.skiprows, p)[i] = <<>>
           /\ \E i \in 1..2 : IsIntLiteral(CellsOf(last.file, last.skiprows, p)[i])

\* the same Python value, or the same number as an int and as a float
SameValue(x, y) == x = y \/ (IsNum(x) /\ IsNum(y) /\ AsFloat(x) = AsFloat(y))

\* C8 (Spec): from_mapping returns a table of exactly the given columns in
\* insertion order when all the sequences have one length, and fails with
\* LengthMismatch, returning no table, when two of them differ in length.
C8_FromMapping ==
    last.op = "from_mapping" =>
        LET d == last.data
            r == last.result
        IN IF \A i, j \in DOMAIN d : Len(d[i][2]) = Len(d[j][2])
           THEN /\ r.kind = "frame"
                /\ cur = r
                /\ ColumnNames(r) = [i \in DOMAIN d |-> d[i][1]]
                /\ \A i \in DOMAIN d :
                       /\ Len(r.columns[i].values) = Len(d[i][2])
                       /\ NRows(r) = Len(d[i][2])
                       /\ \A k \in DOMAIN d[i][2] :
                              SameValue(r.columns[i].values[k], d[i][2][k])
           ELSE /\ r = Error("ValueError", 0)
                /\ cur = Unbound

\* from_mapping({a: [1, 2], b: [1, 2, 3]})
C8_Witness ==
    /\ last.op = "from_mapping"
    /\ last.data = <<<<NameA, <<IntV(1), IntV(2)>>>>,
                     <<NameB, <<IntV(1), IntV(2), IntV(3)>>>>>>
    /\ last.result.kind = "error"
    /\ cur = Unbound

WellShaped(t) ==
    \A c \in DOMAIN t.columns : Len(t.columns[c].values) = NRows(t)

NoRepeat(names) == \A i, j \in DOMAIN names : i # j => names[i] # names[j]

EmptyTableIsEmpty ==
    last.op = "empty_table" =>
        /\ last.result.kind = "frame"
        /\ NRows(last.result) = 0
        /\ NCols(last.result) = 0
        /\ ColumnNames(last.result) = <<>>
        /\ cur = last.result

\* C9 as the specification states it (Spec): every table reached by the
\* operations has columns of one length, its row count, and pairwise
\* distinct column names; empty_table() has shape (0, 0) and no columns.
C9_EveryTableWellFormed ==
    /\ cur.kind = "frame" => WellShaped(cur) /\ DistinctNames(cur)
    /\ last.result.kind = "frame" =>
           WellShaped(last.result) /\ DistinctNames(last.result)
    /\ EmptyTableIsEmpty

\* C9 amended (Spec): every table reached by the operations has columns of
\* one length, its row count; its column names are pairwise distinct when
\* it comes from parse, from_mapping or empty_table, or from select, head,
\* tail or describe of a table with pairwise distinct names, select being
\* given no name twice; empty_table() has shape (0, 0) and no columns.
C9_WellFormed ==
    /\ cur.kind = "frame" => WellShaped(cur)
    /\ last.result.kind = "frame" =>
           /\ WellShaped(last.result)
           /\ last.op \in {"parse", "from_mapping", "empty_table"} =>
                  DistinctNames(last.result)
           /\ (/\ last.op \in {"select", "head", "tail", "describe"}
               /\ DistinctNames(last.input)
               /\ last.op = "select" => NoRepeat(last.names)) =>
                  DistinctNames(last.result)
    /\ EmptyTableIsEmpty

\* a table parsed under a header that repeats a name, with a row
C9_Witness ==
    /\ last.op = "parse"
    /\ last.skiprows = 0
    /\ last.usecols = NoUsecols
    /\ Len(last.file) >= 2
    /\ Split(last.file[1], Comma) = <<NameA, NameA>>
    /\ last.result.kind = "frame"
    /\ NCols(last.result) = 2
    /\ NRows(last.result) = Len(last.file) - 1

\* C10 (Spec): mean, min, max and std of a numeric column are computed over
\* its non-missing values only: min and max are the least and greatest of
\* them, mean their sum over their count, std the root of the sum of their
\* squared distances to the mean over their count less one; with no
\* non-missing value each returns the missing value, not an error (std
\* also with one).
C10_ReductionsSkipMissing ==
    last.op = "reduce" =>
        LET vs == last.input.values
            K == {i \in DOMAIN vs : vs[i].k # "nan"}
            n == Cardinality(K)
            xs == NonMissing(vs)
            r == last.result
        IN /\ r.kind = "scalar"
           /\ Len(xs) = n
           /\ n = 0 => r.value = NaN
           /\ (n > 0 /\ last.fn = "min") =>
                  \E i \in K : /\ r.value = vs[i]
                               /\ \A j \in K : ~RLess(AsFloat(vs[j]), AsFloat(vs[i]))
           /\ (n > 0 /\ last.fn = "max") =>
                  \E i \in K : /\ r.value = vs[i]
                               /\ \A j \in K : ~RLess(AsFloat(vs[i]), AsFloat(vs[j]))
           /\ (n > 0 /\ last.fn = "mean") =>
                  /\ r.value.k = "float"
                  /\ RMul(r.value, FloatV(n, 1)) = Sum(xs)
           /\ (n = 1 /\ last.fn = "std") => r.value = NaN
           /\ (n > 1 /\ last.fn = "std") =>
                  LET m == RDiv(Sum(xs), FloatV(n, 1))
                      sq == [i \in DOMAIN xs |-> RMul(RSub(xs[i], m), RSub(xs[i], m))]
                  IN /\ r.value.k = "sqrt"
                     /\ RMul(FloatV(r.value.n, r.value.d), FloatV(n - 1, 1)) = Sum(sq)

\* the least value of a column of nothing but missing values
C10_Witness ==
    /\ last.op = "reduce"
    /\ last.fn = "min"
    /\ Len(last.input.values) >= 1
    /\ \A i \in DOMAIN last.input.values : last.input.values[i] = NaN
    /\ last.result = Scalar(NaN)

====
